---- MODULE Spec2Model ----
(***************************************************************************)
(* Model of the two minesweeper programs of this repository:               *)
(*   minesweeper.py   (impl = "ms"): module-level grids vvram and mask,    *)
(*                    functions putmines, calccell, calcfield, reveal,     *)
(*                    endcheck, mainloop;                                  *)
(*   nyankosweeper.py (impl = "ns"): classes Cell, Board, GameState, Game. *)
(* A state of the model is a point where the program is about to draw a    *)
(* random cell (pc = "putmines") or is blocked in getkey (pc = "key",      *)
(* "winkey", "losekey"), or has left the game loop (pc = "done").  Before   *)
(* them, pc = "start" is the process reading its argument, and pc = "exit" *)
(* a process that ended there; the grids exist from pc = "putmines" on.    *)
(* The process is started with one argument, argv1.                        *)
(* One action is everything the program does between two such points.      *)
(* The boards are xsize x ysize instead of 40 x 23 (40 x 22).              *)
(***************************************************************************)
EXTENDS Integers, Sequences, FiniteSets, TLC

\* ---------------------------------------------------------------- bounds
xsize == 3
ysize == 2
MaxMines == 2
MaxMarked == 2

\* ------------------------------------------------------------- constants
XSIZE == xsize
BOARD_HEIGHT == ysize
STAR == -1
aca == <<"#", "@", "?">>
MARKS == <<"#", "F", "?">>
Impls == {"ms", "ns"}
Keys == {"4", "6", "8", "2", "z", " ", "q", "KEY_UP"}
MAX_MINES == 300
MineArgs == (0 - 1)..MaxMines
\* sys.argv[1]: num says whether int() accepts the text, val is its value.
Args ==
  {[num |-> FALSE, val |-> 0]}
    \cup {[num |-> TRUE, val |-> n] : n \in MineArgs \cup {MAX_MINES + 1}}

XS == 0..(xsize - 1)
YS == 0..(ysize - 1)
Cells == XS \X YS
D3 == {0 - 1, 0, 1}

VARIABLES impl, argv1, exit_status, mines, pc, key, ret,
          vvram, mask, x, y, i,
          grid, cursor_x, cursor_y, game_over, placed

vars == <<impl, argv1, exit_status, mines, pc, key, ret, vvram, mask, x, y, i,
          grid, cursor_x, cursor_y, game_over, placed>>
msvars == <<vvram, mask, x, y, i>>
nsvars == <<grid, cursor_x, cursor_y, game_over, placed>>

\* ------------------------------------------------------------ minesweeper.py
InBounds(cx, cy) == cx >= 0 /\ cy >= 0 /\ cx < xsize /\ cy < ysize

getkey(k) ==
  IF k = "KEY_UP" THEN "8"
  ELSE IF k = "KEY_DOWN" THEN "2"
  ELSE IF k = "KEY_RIGHT" THEN "6"
  ELSE IF k = "KEY_LEFT" THEN "4"
  ELSE k

RECURSIVE calccellSum(_, _, _, _)
\* calccell without the two lower-bound tests: an index of -1 is the last row
\* or column.
calccellSumWraps(v, cx, cy, k) ==
  IF k = 9 THEN 0
  ELSE LET dx == (k \div 3) - 1
           dy == (k % 3) - 1
       IN (IF cx + dx < xsize /\ cy + dy < ysize
              /\ v[(cx + dx + xsize) % xsize][(cy + dy + ysize) % ysize] = STAR
             THEN 1 ELSE 0)
          + calccellSum(v, cx, cy, k + 1)
calccellSum(v, cx, cy, k) ==
  IF k = 9 THEN 0
  ELSE LET dx == (k \div 3) - 1
           dy == (k % 3) - 1
       IN (IF InBounds(cx + dx, cy + dy) /\ v[cx + dx][cy + dy] = STAR
             THEN 1 ELSE 0)
          + calccellSum(v, cx, cy, k + 1)

calccell(v, cx, cy) ==
  IF v[cx][cy] = 0
    THEN [v EXCEPT ![cx][cy] = calccellSum(v, cx, cy, 0)]
    ELSE v

RECURSIVE calcfieldFrom(_, _)
calcfieldFrom(v, n) ==
  IF n = xsize * ysize THEN v
  ELSE calcfieldFrom(calccell(v, n \div ysize, n % ysize), n + 1)

calcfield(v) == calcfieldFrom(v, 0)

\* reveal(x, y) is run as the interpreter runs it: c.m is mask, c.st the
\* stack of the calls that are inside their dx, dy loops, each frame
\* <<x, y, k>> with k the number of (dx, dy) pairs already visited.
\* c.depth is the deepest nesting of calls so far and c.flips the number of
\* assignments mask[x][y] = ' ' executed so far.
\* revealCall is the entry of one call (lines 70-75).
\* reveal entering its loops at a numbered cell as well.
revealCallSpreads(v, c, cx, cy) ==
  LET d == [c EXCEPT !.depth = IF Len(c.st) + 1 > c.depth
                                 THEN Len(c.st) + 1 ELSE c.depth]
  IN IF d.m[cx][cy] # " " /\ v[cx][cy] # STAR
       THEN [d EXCEPT !.m[cx][cy] = " ", !.flips = d.flips + 1,
                      !.st = Append(d.st, <<cx, cy, 0>>)]
     ELSE d
revealCall(v, c, cx, cy) ==
  LET d == [c EXCEPT !.depth = IF Len(c.st) + 1 > c.depth
                                 THEN Len(c.st) + 1 ELSE c.depth]
  IN IF v[cx][cy] # 0 /\ d.m[cx][cy] # " "
       THEN [d EXCEPT !.m[cx][cy] = " ", !.flips = d.flips + 1]
     ELSE IF v[cx][cy] = 0 /\ d.m[cx][cy] # " "
       THEN [d EXCEPT !.m[cx][cy] = " ", !.flips = d.flips + 1,
                      !.st = Append(d.st, <<cx, cy, 0>>)]
     ELSE d

\* One iteration of the innermost active call's loops (lines 76-79), or its
\* return when the loops are over.
revealStep(v, c) ==
  LET f == c.st[Len(c.st)]
      k == f[3]
      dx == (k \div 3) - 1
      dy == (k % 3) - 1
  IN IF k = 9
       THEN [c EXCEPT !.st = SubSeq(c.st, 1, Len(c.st) - 1)]
       ELSE LET c1 == [c EXCEPT !.st[Len(c.st)] = <<f[1], f[2], k + 1>>]
            IN IF InBounds(f[1] + dx, f[2] + dy)
                 THEN revealCall(v, c1, f[1] + dx, f[2] + dy)
                 ELSE c1

\* n steps, or fewer if the outermost call has returned.  A call that enters
\* its loops takes 10 steps and a cell enters them at most once.
RECURSIVE revealRun(_, _, _)
revealRun(v, c, n) ==
  IF c.st = << >> \/ n = 0 THEN c
  ELSE IF n = 1 THEN revealStep(v, c)
  ELSE revealRun(v, revealRun(v, c, n \div 2), n - (n \div 2))

\* The outermost call, run for at most 10 * xsize * ysize steps.
revealCalls(v, m, cx, cy) ==
  revealRun(v, revealCall(v, [m |-> m, st |-> << >>, depth |-> 0, flips |-> 0],
                          cx, cy),
            10 * xsize * ysize)

\* reveal without its loops: the cell itself only.
revealOnly(v, m, cx, cy) ==
  revealCall(v, [m |-> m, st |-> << >>, depth |-> 0, flips |-> 0], cx, cy).m
reveal(v, m, cx, cy) == revealCalls(v, m, cx, cy).m

endcheck(m, n) ==
  Cardinality({p \in Cells : m[p[1]][p[2]] = aca[1] \/ m[p[1]][p[2]] = aca[2]}) = n

acaIndex(ch) == CHOOSE j \in 1..3 : aca[j] = ch

MsMarkedCount(m) ==
  Cardinality({p \in Cells : m[p[1]][p[2]] = aca[2] \/ m[p[1]][p[2]] = aca[3]})

\* The top of mainloop's while: drawscreen, endcheck, then block in getkey.
MsLoopTop(m) == IF endcheck(m, mines) THEN "winkey" ELSE "key"

\* Lines 9-23: int() raises ValueError on a text that is no number and the
\* interpreter ends with status 1; otherwise mines is assigned, tested
\* against 300, and the grids are created.
MsStartup ==
  /\ impl = "ms" /\ pc = "start"
  /\ IF ~argv1.num
       THEN /\ pc' = "exit" /\ exit_status' = <<1>> /\ mines' = mines
       ELSE /\ mines' = argv1.val
            /\ IF argv1.val > 300
                 THEN pc' = "exit" /\ exit_status' = <<1>>
                 ELSE pc' = "putmines" /\ exit_status' = exit_status
  /\ UNCHANGED <<impl, argv1, key, ret, vvram, mask, x, y, i>>
  /\ UNCHANGED nsvars

\* putmines without the test that the drawn cell is free.
MsPutminesNoTest ==
  /\ impl = "ms" /\ pc = "putmines" /\ i < mines
  /\ \E rx \in XS, ry \in YS :
       /\ vvram' = [vvram EXCEPT ![rx][ry] = STAR]
       /\ i' = i + 1
  /\ UNCHANGED <<impl, argv1, exit_status, mines, pc, key, ret, mask, x, y>>
  /\ UNCHANGED nsvars
MsPutmines ==
  /\ impl = "ms" /\ pc = "putmines" /\ i < mines
  /\ \E rx \in XS, ry \in YS :
       IF vvram[rx][ry] = 0
         THEN /\ vvram' = [vvram EXCEPT ![rx][ry] = STAR]
              /\ i' = i + 1
         ELSE UNCHANGED <<vvram, i>>
  /\ UNCHANGED <<impl, argv1, exit_status, mines, pc, key, ret, mask, x, y>>
  /\ UNCHANGED nsvars

MsGame ==
  /\ impl = "ms" /\ pc = "putmines" /\ ~(i < mines)
  /\ vvram' = calcfield(vvram)
  /\ x' = xsize \div 2
  /\ y' = ysize \div 2
  /\ pc' = MsLoopTop(mask)
  /\ UNCHANGED <<impl, argv1, exit_status, mines, key, ret, mask, i>>
  /\ UNCHANGED nsvars

\* mainloop's movement without the edge tests: the cursor comes back in at
\* the opposite edge.
MsMoveWraps ==
  /\ impl = "ms" /\ pc = "key"
  /\ \E k \in Keys :
       LET c == getkey(k) IN
       /\ c \in {"4", "6", "8", "2"}
       /\ key' = c
       /\ x' = IF c = "4" THEN (x - 1) % xsize
               ELSE IF c = "6" THEN (x + 1) % xsize
               ELSE x
       /\ y' = IF c = "8" THEN (y - 1) % ysize
               ELSE IF c = "2" THEN (y + 1) % ysize
               ELSE y
  /\ pc' = MsLoopTop(mask)
  /\ UNCHANGED <<impl, argv1, exit_status, mines, ret, vvram, mask, i>>
  /\ UNCHANGED nsvars
MsMove ==
  /\ impl = "ms" /\ pc = "key"
  /\ \E k \in Keys :
       LET c == getkey(k) IN
       /\ c \in {"4", "6", "8", "2"}
       /\ key' = c
       /\ x' = IF c = "4" THEN x - (IF x # 0 THEN 1 ELSE 0)
               ELSE IF c = "6" THEN x + (IF x # xsize - 1 THEN 1 ELSE 0)
               ELSE x
       /\ y' = IF c = "8" THEN y - (IF y # 0 THEN 1 ELSE 0)
               ELSE IF c = "2" THEN y + (IF y # ysize - 1 THEN 1 ELSE 0)
               ELSE y
  /\ pc' = MsLoopTop(mask)
  /\ UNCHANGED <<impl, argv1, exit_status, mines, ret, vvram, mask, i>>
  /\ UNCHANGED nsvars

MsToggled(m, cx, cy) ==
  IF m[cx][cy] # " "
    THEN [m EXCEPT ![cx][cy] = aca[((acaIndex(m[cx][cy]) - 1 + 1) % 3) + 1]]
    ELSE m

MsToggle ==
  /\ impl = "ms" /\ pc = "key"
  /\ key' = "z"
  /\ mask' = MsToggled(mask, x, y)
  /\ MsMarkedCount(mask') <= MaxMarked
  /\ pc' = MsLoopTop(mask')
  /\ UNCHANGED <<impl, argv1, exit_status, mines, ret, vvram, x, y, i>>
  /\ UNCHANGED nsvars

\* mainloop testing the cell for any non-zero content instead of '*'.
MsRevealAnyNonZero ==
  /\ impl = "ms" /\ pc = "key"
  /\ key' = " "
  /\ IF vvram[x][y] # 0
       THEN /\ pc' = "losekey"
            /\ mask' = mask
       ELSE /\ mask' = reveal(vvram, mask, x, y)
            /\ pc' = MsLoopTop(mask')
  /\ UNCHANGED <<impl, argv1, exit_status, mines, ret, vvram, x, y, i>>
  /\ UNCHANGED nsvars
MsReveal ==
  /\ impl = "ms" /\ pc = "key"
  /\ key' = " "
  /\ IF vvram[x][y] = STAR
       THEN /\ pc' = "losekey"
            /\ mask' = mask
       ELSE /\ mask' = reveal(vvram, mask, x, y)
            /\ pc' = MsLoopTop(mask')
  /\ UNCHANGED <<impl, argv1, exit_status, mines, ret, vvram, x, y, i>>
  /\ UNCHANGED nsvars

\* mainloop returns 1; game() drops the value (lines 165-166) and the module
\* runs to its end after curses.endwin().
MsQuit ==
  /\ impl = "ms" /\ pc = "key"
  /\ key' = "q"
  /\ pc' = "done"
  /\ ret' = <<1>>
  /\ exit_status' = <<0>>
  /\ UNCHANGED <<impl, argv1, mines, vvram, mask, x, y, i>>
  /\ UNCHANGED nsvars

\* The getkey() that follows "You win. hit key" / "You lose. hit key".
MsHitKey ==
  /\ impl = "ms" /\ pc \in {"winkey", "losekey"}
  /\ pc' = "done"
  /\ ret' = IF pc = "winkey" THEN <<0>> ELSE <<0 - 1>>
  /\ exit_status' = <<0>>
  /\ UNCHANGED <<impl, argv1, mines, key, vvram, mask, x, y, i>>
  /\ UNCHANGED nsvars

\* --------------------------------------------------------- nyankosweeper.py
Cell == [mine |-> FALSE, revealed |-> FALSE, mark |-> 0, adjacent |-> 0]

DIRECTIONS(a) ==
  IF a = "LEFT" THEN <<0 - 1, 0>>
  ELSE IF a = "RIGHT" THEN <<1, 0>>
  ELSE IF a = "UP" THEN <<0, 0 - 1>>
  ELSE <<0, 1>>

\* Config.KEY_BINDINGS.get(key); "" stands for None.
KEY_BINDINGS(k) ==
  IF k \in {"4", "h", "KEY_LEFT"} THEN "LEFT"
  ELSE IF k \in {"6", "l", "KEY_RIGHT"} THEN "RIGHT"
  ELSE IF k \in {"8", "k", "KEY_UP"} THEN "UP"
  ELSE IF k \in {"2", "j", "KEY_DOWN"} THEN "DOWN"
  ELSE ""

max(a, b) == IF a >= b THEN a ELSE b
min(a, b) == IF a <= b THEN a ELSE b

calculate_adjacents(g) ==
  [cx \in XS |-> [cy \in YS |->
     IF g[cx][cy].mine THEN g[cx][cy]
     ELSE [g[cx][cy] EXCEPT !.adjacent =
             Cardinality({d \in D3 \X D3 :
                /\ (d[1] # 0 \/ d[2] # 0)
                /\ 0 <= cx + d[1] /\ cx + d[1] < XSIZE
                /\ 0 <= cy + d[2] /\ cy + d[2] < BOARD_HEIGHT
                /\ g[cx + d[1]][cy + d[2]].mine})]]]

\* Board.reveal, run like reveal above: c.g is the grid, c.st the stack of
\* the calls inside their dx, dy loops, c.depth the deepest nesting so far,
\* c.flips the number of assignments cell.revealed = True executed so far.
\* Board_revealCall is lines 77-81.
\* Board.reveal entering its loops at a zero-count cell without having set
\* cell.revealed.
Board_revealCallUnset(c, cx, cy) ==
  LET d == [c EXCEPT !.depth = max(c.depth, Len(c.st) + 1)]
  IN IF d.g[cx][cy].revealed \/ MARKS[d.g[cx][cy].mark + 1] # "#"
       THEN d
     ELSE IF d.g[cx][cy].adjacent = 0 /\ ~d.g[cx][cy].mine
       THEN [d EXCEPT !.st = Append(d.st, <<cx, cy, 0>>)]
     ELSE [d EXCEPT !.g[cx][cy].revealed = TRUE, !.flips = d.flips + 1]
Board_revealCall(c, cx, cy) ==
  LET d == [c EXCEPT !.depth = max(c.depth, Len(c.st) + 1)]
  IN IF d.g[cx][cy].revealed \/ MARKS[d.g[cx][cy].mark + 1] # "#"
       THEN d
     ELSE IF d.g[cx][cy].adjacent = 0 /\ ~d.g[cx][cy].mine
       THEN [d EXCEPT !.g[cx][cy].revealed = TRUE, !.flips = d.flips + 1,
                      !.st = Append(d.st, <<cx, cy, 0>>)]
     ELSE [d EXCEPT !.g[cx][cy].revealed = TRUE, !.flips = d.flips + 1]

\* Board.reveal spreading to the four orthogonal neighbours only.
Board_revealStep4(c) ==
  LET f == c.st[Len(c.st)]
      k == f[3]
      nx == f[1] + (k \div 3) - 1
      ny == f[2] + (k % 3) - 1
  IN IF k = 9
       THEN [c EXCEPT !.st = SubSeq(c.st, 1, Len(c.st) - 1)]
       ELSE LET c1 == [c EXCEPT !.st[Len(c.st)] = <<f[1], f[2], k + 1>>]
            IN IF 0 <= nx /\ nx < XSIZE /\ 0 <= ny /\ ny < BOARD_HEIGHT
                  /\ (nx = f[1] \/ ny = f[2])
                 THEN Board_revealCall(c1, nx, ny)
                 ELSE c1
\* One iteration of the innermost active call's loops (lines 82-86), or its
\* return when the loops are over.
Board_revealStep(c) ==
  LET f == c.st[Len(c.st)]
      k == f[3]
      nx == f[1] + (k \div 3) - 1
      ny == f[2] + (k % 3) - 1
  IN IF k = 9
       THEN [c EXCEPT !.st = SubSeq(c.st, 1, Len(c.st) - 1)]
       ELSE LET c1 == [c EXCEPT !.st[Len(c.st)] = <<f[1], f[2], k + 1>>]
            IN IF 0 <= nx /\ nx < XSIZE /\ 0 <= ny /\ ny < BOARD_HEIGHT
                 THEN Board_revealCall(c1, nx, ny)
                 ELSE c1

RECURSIVE Board_revealRun(_, _)
Board_revealRun(c, n) ==
  IF c.st = << >> \/ n = 0 THEN c
  ELSE IF n = 1 THEN Board_revealStep(c)
  ELSE Board_revealRun(Board_revealRun(c, n \div 2), n - (n \div 2))

\* The outermost call, run for at most 10 * XSIZE * BOARD_HEIGHT steps.
Board_revealCalls(g, cx, cy) ==
  Board_revealRun(
    Board_revealCall([g |-> g, st |-> << >>, depth |-> 0, flips |-> 0], cx, cy),
    10 * XSIZE * BOARD_HEIGHT)

Board_reveal(g, cx, cy) == Board_revealCalls(g, cx, cy).g

\* toggle_mark without the test that the cell is unrevealed.
toggle_markAlways(g, cx, cy) ==
  [g EXCEPT ![cx][cy].mark = (g[cx][cy].mark + 1) % Len(MARKS)]
toggle_mark(g, cx, cy) ==
  IF ~g[cx][cy].revealed
    THEN [g EXCEPT ![cx][cy].mark = (g[cx][cy].mark + 1) % Len(MARKS)]
    ELSE g

all_clear(g) == \A p \in Cells : g[p[1]][p[2]].revealed \/ g[p[1]][p[2]].mine

\* reveal_all without the test of the mine's mark.
reveal_allMines(g, show_mines) ==
  [cx \in XS |-> [cy \in YS |-> [g[cx][cy] EXCEPT !.revealed = TRUE]]]
reveal_all(g, show_mines) ==
  [cx \in XS |-> [cy \in YS |->
     IF show_mines
       THEN IF g[cx][cy].mine
              THEN IF g[cx][cy].mark # 1
                     THEN [g[cx][cy] EXCEPT !.revealed = TRUE]
                     ELSE g[cx][cy]
              ELSE [g[cx][cy] EXCEPT !.revealed = TRUE]
       ELSE [g[cx][cy] EXCEPT !.revealed = TRUE]]]

handle_win(g) ==
  [cx \in XS |-> [cy \in YS |->
     IF g[cx][cy].mine
       THEN [g[cx][cy] EXCEPT !.mark = 1, !.revealed = FALSE]
       ELSE [g[cx][cy] EXCEPT !.revealed = TRUE]]]

NsMarkedCount(g) == Cardinality({p \in Cells : g[p[1]][p[2]].mark # 0})

\* Game.run's loop head without the game_over test.
NsLoopTopAnyState(g) ==
  IF all_clear(g)
    THEN /\ grid' = handle_win(g)
         /\ pc' = "winkey"
    ELSE /\ grid' = g
         /\ pc' = "key"
\* The top of Game.run's while, given the board g left by the handler:
\* draw, refresh, the win test, then block in getkey.
NsLoopTop(g) ==
  IF ~game_over' /\ all_clear(g)
    THEN /\ grid' = handle_win(g)
         /\ pc' = "winkey"
    ELSE /\ grid' = g
         /\ pc' = "key"

\* get_mine_count: << >> stands for the exit(1) of lines 201-203 and 205-207.
get_mine_count(a) ==
  IF ~a.num THEN << >>
  ELSE IF a.val > MAX_MINES THEN << >>
  ELSE <<a.val>>

\* run(stdscr) up to Game(stdscr, mines), whose Board(mines) creates the grid.
NsStartup ==
  /\ impl = "ns" /\ pc = "start"
  /\ IF get_mine_count(argv1) = << >>
       THEN /\ pc' = "exit" /\ exit_status' = <<1>> /\ mines' = mines
       ELSE /\ mines' = get_mine_count(argv1)[1]
            /\ pc' = "putmines" /\ exit_status' = exit_status
  /\ UNCHANGED <<impl, argv1, key, ret, grid, cursor_x, cursor_y, game_over, placed>>
  /\ UNCHANGED msvars

NsPlaceMines ==
  /\ impl = "ns" /\ pc = "putmines" /\ placed < mines
  /\ \E rx \in XS, ry \in YS :
       IF ~grid[rx][ry].mine
         THEN /\ grid' = [grid EXCEPT ![rx][ry].mine = TRUE]
              /\ placed' = placed + 1
         ELSE UNCHANGED <<grid, placed>>
  /\ UNCHANGED <<impl, argv1, exit_status, mines, pc, key, ret, cursor_x, cursor_y, game_over>>
  /\ UNCHANGED msvars

NsGame ==
  /\ impl = "ns" /\ pc = "putmines" /\ ~(placed < mines)
  /\ cursor_x' = XSIZE \div 2
  /\ cursor_y' = BOARD_HEIGHT \div 2
  /\ game_over' = FALSE
  /\ NsLoopTop(calculate_adjacents(grid))
  /\ UNCHANGED <<impl, argv1, exit_status, mines, key, ret, placed>>
  /\ UNCHANGED msvars

NsMove ==
  /\ impl = "ns" /\ pc = "key"
  /\ \E k \in Keys :
       /\ KEY_BINDINGS(k) # ""
       /\ key' = k
       /\ LET d == DIRECTIONS(KEY_BINDINGS(k)) IN
          /\ cursor_x' = max(0, min(XSIZE - 1, cursor_x + d[1]))
          /\ cursor_y' = max(0, min(BOARD_HEIGHT - 1, cursor_y + d[2]))
  /\ game_over' = game_over
  /\ NsLoopTop(grid)
  /\ UNCHANGED <<impl, argv1, exit_status, mines, ret, placed>>
  /\ UNCHANGED msvars

NsToggle ==
  /\ impl = "ns" /\ pc = "key"
  /\ key' = "z"
  /\ game_over' = game_over
  /\ NsMarkedCount(toggle_mark(grid, cursor_x, cursor_y)) <= MaxMarked
  /\ NsLoopTop(toggle_mark(grid, cursor_x, cursor_y))
  /\ UNCHANGED <<impl, argv1, exit_status, mines, ret, cursor_x, cursor_y, placed>>
  /\ UNCHANGED msvars

\* handle_reveal without the mine test: board.reveal is called on any cell.
NsRevealNoMineTest ==
  /\ impl = "ns" /\ pc = "key"
  /\ key' = " "
  /\ game_over' = game_over
  /\ NsLoopTop(Board_reveal(grid, cursor_x, cursor_y))
  /\ UNCHANGED <<impl, argv1, exit_status, mines, ret, cursor_x, cursor_y, placed>>
  /\ UNCHANGED msvars
\* handle_reveal: on a mine it ends blocked in its own getkey ("losekey").
NsReveal ==
  /\ impl = "ns" /\ pc = "key"
  /\ key' = " "
  /\ IF grid[cursor_x][cursor_y].mine
       THEN /\ game_over' = TRUE
            /\ grid' = reveal_all(grid, TRUE)
            /\ pc' = "losekey"
       ELSE /\ game_over' = game_over
            /\ NsLoopTop(Board_reveal(grid, cursor_x, cursor_y))
  /\ UNCHANGED <<impl, argv1, exit_status, mines, ret, cursor_x, cursor_y, placed>>
  /\ UNCHANGED msvars

NsQuit ==
  /\ impl = "ns" /\ pc = "key"
  /\ key' = "q"
  /\ pc' = "done"
  /\ ret' = <<1>>
  /\ exit_status' = <<0>>
  /\ UNCHANGED <<impl, argv1, mines, grid, cursor_x, cursor_y, game_over, placed>>
  /\ UNCHANGED msvars

\* The getkey() at the end of handle_win: Game.run then returns 0, which
\* run(stdscr) drops (line 216); main returns.
NsWinKey ==
  /\ impl = "ns" /\ pc = "winkey"
  /\ pc' = "done"
  /\ ret' = <<0>>
  /\ exit_status' = <<0>>
  /\ UNCHANGED <<impl, argv1, mines, key, grid, cursor_x, cursor_y, game_over, placed>>
  /\ UNCHANGED msvars

\* The getkey() at the end of handle_reveal's loss branch: handle_reveal and
\* handle_key return (True) and run goes round its loop again.
NsLoseKey ==
  /\ impl = "ns" /\ pc = "losekey"
  /\ game_over' = game_over
  /\ NsLoopTop(grid)
  /\ UNCHANGED <<impl, argv1, exit_status, mines, key, ret, cursor_x, cursor_y, placed>>
  /\ UNCHANGED msvars

\* ------------------------------------------------------------ specification
Init ==
  /\ impl \in Impls
  /\ argv1 \in Args
  /\ exit_status = << >>
  /\ mines = 0
  /\ pc = "start"
  /\ key = ""
  /\ ret = << >>
  /\ vvram = [cx \in XS |-> [cy \in YS |-> 0]]
  /\ mask = [cx \in XS |-> [cy \in YS |-> "#"]]
  /\ x = 0 /\ y = 0 /\ i = 0
  /\ grid = [cx \in XS |-> [cy \in YS |-> Cell]]
  /\ cursor_x = 0 /\ cursor_y = 0
  /\ game_over = FALSE
  /\ placed = 0

Next ==
  \/ MsStartup \/ NsStartup
  \/ MsPutmines \/ MsGame \/ MsMove \/ MsToggle \/ MsReveal \/ MsQuit \/ MsHitKey
  \/ NsPlaceMines \/ NsGame \/ NsMove \/ NsToggle \/ NsReveal \/ NsQuit
  \/ NsWinKey \/ NsLoseKey

Spec == Init /\ [][Next]_vars

\* The interpreter runs the startup code; random.randint draws every cell
\* with positive probability, so a draw of a free cell is not postponed for
\* ever; the calls after the loop follow.
FairSpec ==
  /\ Spec
  /\ WF_vars(MsStartup)
  /\ WF_vars(NsStartup)
  /\ WF_vars(MsPutmines /\ i' = i + 1)
  /\ WF_vars(NsPlaceMines /\ placed' = placed + 1)
  /\ WF_vars(MsGame)
  /\ WF_vars(NsGame)

TypeOK ==
  /\ impl \in Impls
  /\ pc \in {"start", "exit", "putmines", "key", "winkey", "losekey", "done"}
  /\ x \in XS /\ y \in YS /\ cursor_x \in XS /\ cursor_y \in YS

\* ------------------------------------------------- what both programs show
\* The spec's Cell attributes, read off either program's state.
IsMine(p) ==
  IF impl = "ms" THEN vvram[p[1]][p[2]] = STAR ELSE grid[p[1]][p[2]].mine
Revealed(p) ==
  IF impl = "ms" THEN mask[p[1]][p[2]] = " " ELSE grid[p[1]][p[2]].revealed
\* 0 = None, 1 = Flag, 2 = Question.
MarkOf(p) ==
  IF impl = "ms"
    THEN (IF mask[p[1]][p[2]] = "@" THEN 1
          ELSE IF mask[p[1]][p[2]] = "?" THEN 2 ELSE 0)
    ELSE grid[p[1]][p[2]].mark
AdjacentCount(p) ==
  IF impl = "ms" THEN vvram[p[1]][p[2]] ELSE grid[p[1]][p[2]].adjacent
Cursor == IF impl = "ms" THEN <<x, y>> ELSE <<cursor_x, cursor_y>>
Marked(p) == ~Revealed(p) /\ MarkOf(p) # 0
MineSet == {p \in Cells : IsMine(p)}
RevealedSet == {p \in Cells : Revealed(p)}
MarkMap == [p \in Cells |-> MarkOf(p)]
Abs(n) == IF n < 0 THEN 0 - n ELSE n
Chebyshev(p, q) ==
  IF Abs(p[1] - q[1]) >= Abs(p[2] - q[2])
    THEN Abs(p[1] - q[1]) ELSE Abs(p[2] - q[2])
Neighbours(p) == {q \in Cells : Chebyshev(p, q) = 1}

Won == pc = "winkey" \/ (pc = "done" /\ ret = <<0>>)
Lost ==
  IF impl = "ms" THEN pc = "losekey" \/ (pc = "done" /\ ret = <<0 - 1>>)
  ELSE game_over
InProgress == pc = "key" /\ ~Lost
\* The board is built: putmines and calcfield, or Board.__init__, are over.
Constructed == pc \in {"key", "winkey", "losekey", "done"}
RevealStep == MsReveal \/ NsReveal
ToggleStep == MsToggle \/ NsToggle
MoveStep == MsMove \/ NsMove

\* ------------------------------------------------------------------ claims

\* C1: in an in-progress state, a reveal action with the cursor on an
\* unrevealed cell marked Flag or Question leaves that cell unrevealed and
\* its mark unchanged.
C1_MarkedCellNotRevealed ==
  [][(InProgress /\ Marked(Cursor) /\ RevealStep)
       => (~Revealed(Cursor)' /\ MarkOf(Cursor)' = MarkOf(Cursor))]_vars

\* C2: the game is declared Won only in a state where every non-mine cell
\* is revealed, whatever marks the cells carry.
C2_WonOnlyWhenCleared ==
  Won => \A p \in Cells : ~IsMine(p) => Revealed(p)

\* C3: whenever a reveal action leaves every non-mine cell revealed and no
\* mine revealed, the game is Won at the next loop check, whatever marks the
\* unrevealed mine cells carry (stated for boards built with mines >= 0 and
\* for the reveal of a non-mine cell).
C3_ClearedBoardWins ==
  [][(InProgress /\ mines >= 0 /\ RevealStep /\ ~IsMine(Cursor)
        /\ (\A p \in Cells : IsMine(p) <=> ~Revealed(p))')
       => Won']_vars

\* The 8-connected region of zero-count cells containing the cells of S.
ZeroCell(p) == ~IsMine(p) /\ AdjacentCount(p) = 0
RECURSIVE ZeroRegionFrom(_)
ZeroRegionFrom(S) ==
  LET T == S \cup {q \in Cells : ZeroCell(q) /\ \E p \in S : q \in Neighbours(p)}
  IN IF T = S THEN S ELSE ZeroRegionFrom(T)
ZeroRegion(p) == ZeroRegionFrom({p})
WithBorder(R) == R \cup UNION {Neighbours(p) : p \in R}

\* C4 as stated: a reveal action on an unrevealed, unmarked zero-count cell
\* leaves revealed its whole 8-connected zero region and every cell
\* bordering it, and reveals no mine (stated for boards built with mines >= 0).
C4_WholeRegionRevealed ==
  [][(InProgress /\ mines >= 0 /\ RevealStep /\ ~Revealed(Cursor) /\ MarkOf(Cursor) = 0
        /\ ZeroCell(Cursor))
       => (/\ WithBorder(ZeroRegion(Cursor)) \subseteq RevealedSet'
           /\ MineSet \cap RevealedSet' = {})]_vars

\* The cells the flood-fill passes through: zero-count cells that are
\* unrevealed and unmarked before the action, chained by 8-adjacency.
OpenZero(p) == ZeroCell(p) /\ ~Revealed(p) /\ MarkOf(p) = 0
RECURSIVE OpenRegionFrom(_)
OpenRegionFrom(S) ==
  LET T == S \cup {q \in Cells : OpenZero(q) /\ \E p \in S : q \in Neighbours(p)}
  IN IF T = S THEN S ELSE OpenRegionFrom(T)
OpenRegion(p) == OpenRegionFrom({p})

\* C4 amended: a reveal action on an unrevealed, unmarked zero-count cell
\* leaves revealed every unmarked cell that is reached from it through a chain
\* of 8-adjacent zero-count cells that were unrevealed and unmarked before the
\* action, and reveals no mine.
C4_OpenRegionRevealed ==
  [][(InProgress /\ RevealStep /\ OpenZero(Cursor))
       => (/\ {q \in WithBorder(OpenRegion(Cursor)) : ~Marked(q)}
                \subseteq RevealedSet'
           /\ MineSet \cap RevealedSet' = {})]_vars

\* A reveal has just flooded from the cursor cell and stopped at a marked
\* neighbour, which is still unrevealed.
C4_Witness ==
  /\ pc = "key" /\ key = " " /\ ~Lost
  /\ Revealed(Cursor) /\ ZeroCell(Cursor)
  /\ \E q \in Neighbours(Cursor) : Marked(q) /\ ZeroCell(q)

\* C5: once the game is Won or Lost it waits for exactly one key press and
\* the loop exits; no later input moves the cursor, toggles a mark or reveals
\* a cell.
C5_TerminalStates ==
  [][(Won \/ Lost)
       => (/\ Cursor' = Cursor
           /\ RevealedSet' = RevealedSet
           /\ MarkMap' = MarkMap
           /\ pc \in {"winkey", "losekey"} => pc' = "done"
           /\ pc = "done" => pc' = "done")]_vars

\* C6: from an in-progress state a reveal action on an unmarked mine cell
\* makes the game Lost, and the game becomes Lost by no cursor movement, no
\* mark toggle and no reveal action on a non-mine cell.
C6_LostOnlyByMineReveal ==
  [][/\ (InProgress /\ RevealStep /\ IsMine(Cursor) /\ MarkOf(Cursor) = 0)
          => Lost'
     /\ (~Lost /\ Lost') => (InProgress /\ RevealStep /\ IsMine(Cursor))
     /\ (InProgress /\ (MoveStep \/ ToggleStep \/ (RevealStep /\ ~IsMine(Cursor))))
          => ~Lost']_vars

\* The player has just stepped on an unmarked mine.
C6_Witness ==
  /\ Lost /\ pc = "losekey" /\ key = " "
  /\ IsMine(Cursor) /\ MarkOf(Cursor) = 0

\* C7: a reveal action with the cursor on a mine marked Flag or Question is
\* a no-op: the game stays in progress and no cell's revealed state changes.
C7_MarkedMineProtected ==
  [][(InProgress /\ RevealStep /\ IsMine(Cursor) /\ Marked(Cursor))
       => (~Lost' /\ pc' = "key" /\ RevealedSet' = RevealedSet)]_vars

\* The spec's cycle None -> Flag -> Question -> None.
NextMark(m) == IF m = 0 THEN 1 ELSE IF m = 1 THEN 2 ELSE 0

\* C8: a toggle-mark action on an unrevealed cell advances its mark one step
\* in None -> Flag -> Question -> None and changes nothing else; on a revealed
\* cell it changes nothing; two more toggles of the cell restore the board.
C8_ToggleCycles ==
  [][ToggleStep
       => (/\ Cursor' = Cursor
           /\ RevealedSet' = RevealedSet
           /\ MineSet' = MineSet
           /\ \A p \in Cells : p # Cursor => MarkOf(p)' = MarkOf(p)
           /\ MarkOf(Cursor)' =
                IF Revealed(Cursor) THEN MarkOf(Cursor)
                ELSE NextMark(MarkOf(Cursor))
           /\ IF impl = "ms"
                THEN MsToggled(MsToggled(mask', x, y), x, y) = mask
                ELSE toggle_mark(toggle_mark(grid', cursor_x, cursor_y),
                                 cursor_x, cursor_y) = grid)]_vars

\* Two toggles have taken the cursor cell to Question.
C8_Witness ==
  /\ pc = "key" /\ key = "z"
  /\ ~Revealed(Cursor) /\ MarkOf(Cursor) = 2

\* C9: after construction every non-mine cell's adjacent count is the number
\* of mines at Chebyshev distance 1 inside the board, and no count changes.
C9_AdjacentCounts ==
  /\ [](Constructed
          => \A p \in Cells :
               ~IsMine(p) =>
                 AdjacentCount(p) =
                   Cardinality({q \in Cells : Chebyshev(p, q) = 1 /\ IsMine(q)}))
  /\ [][Constructed
          => \A p \in Cells : AdjacentCount(p)' = AdjacentCount(p)]_vars

\* A mine in the last column of row 0 is not counted by the first column.
C9_Witness ==
  /\ pc = "key" /\ key # ""
  /\ IsMine(<<xsize - 1, 0>>)
  /\ Cardinality(MineSet) = 1
  /\ AdjacentCount(<<0, 0>>) = 0
  /\ AdjacentCount(<<xsize - 2, 0>>) = 1

\* C10: for 0 <= mines < width*height, construction terminates with exactly
\* mines distinct mine cells (one more per successful draw until then), and
\* the set of mine cells never changes afterwards.
C10_MinesPlacedOnce ==
  /\ []((Constructed /\ mines >= 0) => Cardinality(MineSet) = mines)
  /\ []((pc = "putmines" /\ mines >= 0)
          => Cardinality(MineSet) = (IF impl = "ms" THEN i ELSE placed))
  /\ [][Constructed => MineSet' = MineSet]_vars
  /\ <>(pc \notin {"start", "putmines"})

\* A game on a board with MaxMines mines has been played to its end.
C10_Witness ==
  /\ pc = "done" /\ mines = MaxMines /\ Cardinality(MineSet) = MaxMines

\* The direction a movement key stands for, as a step of the cursor.
KeyStep(k) ==
  IF k \in {"4", "KEY_LEFT"} THEN <<0 - 1, 0>>
  ELSE IF k \in {"6", "KEY_RIGHT"} THEN <<1, 0>>
  ELSE IF k \in {"8", "KEY_UP"} THEN <<0, 0 - 1>>
  ELSE <<0, 1>>
Target(k) == <<Cursor[1] + KeyStep(k)[1], Cursor[2] + KeyStep(k)[2]>>

\* C11: the cursor is always inside the board; a movement action takes it to
\* the neighbouring cell in the key's direction when that cell is inside the
\* board and leaves it where it is otherwise, and it changes no cell's mine,
\* revealed, mark or adjacent-count state (all of it held in vvram and mask,
\* or in grid).
C11_CursorClamped ==
  /\ [](Cursor \in Cells)
  /\ [][(pc = "key" /\ KEY_BINDINGS(key') # "" /\ MoveStep)
         => (/\ Cursor' = IF Target(key') \in Cells THEN Target(key') ELSE Cursor
             /\ UNCHANGED <<vvram, mask, grid>>)]_vars

\* The cursor is in the top right corner after an "up" key.
C11_Witness ==
  /\ pc = "key" /\ key \in {"8", "KEY_UP"}
  /\ Cursor = <<xsize - 1, 0>>

\* C12: the process ends with exit status 0 when the game ended in Won and
\* with a non-zero status when it ended in Lost or by the quit key (stated for
\* games started with mines >= 0).
C12_ExitStatusTellsWin ==
  (pc = "done" /\ mines >= 0)
    => IF ret = <<0>> THEN exit_status = <<0>> ELSE exit_status # <<0>>


\* The startup argument is no number, is negative or is greater than 300.
InvalidArg == ~argv1.num \/ argv1.val < 0 \/ argv1.val > MAX_MINES

\* C13: with an invalid startup argument the process never gets past its
\* startup: it exits there with a non-zero status, before the grids are
\* created and before any mine is placed.
C13_InvalidArgumentRejected ==
  InvalidArg
    => /\ pc \in {"start", "exit"}
       /\ pc = "exit" => (exit_status # << >> /\ exit_status # <<0>>)
       /\ MineSet = {}


\* C14: on a board built with 0 mines, with no cell revealed and no cell
\* marked, a reveal action at any cursor position reveals every cell and the
\* game is Won at the loop check that follows, before the next key is read.
C14_EmptyBoardFirstReveal ==
  [][(pc = "key" /\ mines = 0 /\ key' = " " /\ InProgress /\ RevealStep
        /\ RevealedSet = {} /\ \A p \in Cells : MarkOf(p) = 0)
       => (RevealedSet' = Cells /\ pc' = "winkey" /\ Won')]_vars

\* A board without mines has been won by a reveal in a corner.
C14_Witness ==
  /\ pc = "winkey" /\ mines = 0 /\ key = " "
  /\ Cursor = <<0, 0>> /\ RevealedSet = Cells


\* C15: a cursor movement or a mark toggle taken in an in-progress state
\* leaves the game in progress: the win check that follows it is false, so
\* Won is entered by reveal actions only (stated for games started with
\* mines >= 0).
C15_MoveAndToggleNeverWin ==
  [][(pc = "key" /\ mines >= 0 /\ InProgress /\ (MoveStep \/ ToggleStep))
       => (InProgress' /\ ~Won')]_vars


\* The cells a step reveals.
NewlyRevealed == RevealedSet' \ RevealedSet

\* C16: while the game is in progress no mine cell is revealed; every cell
\* newly revealed by a reveal action that does not lose the game (a reveal
\* that wins it included) is the cursor cell or a neighbour of a
\* zero-count non-mine cell newly revealed by the same action, and a reveal
\* on a cell with a count above 0 reveals no other cell.
C16_FloodFromZeroCellsOnly ==
  /\ [](InProgress => MineSet \cap RevealedSet = {})
  /\ [][(pc = "key" /\ key' = " " /\ InProgress /\ RevealStep /\ ~IsMine(Cursor))
         => (/\ \A q \in NewlyRevealed :
                  \/ q = Cursor
                  \/ \E p \in NewlyRevealed : ZeroCell(p) /\ q \in Neighbours(p)
             /\ AdjacentCount(Cursor) > 0 => NewlyRevealed \subseteq {Cursor})]_vars

\* A reveal on a numbered cell next to unrevealed cells has revealed it alone.
C16_Witness ==
  /\ pc = "key" /\ key = " " /\ ~Lost
  /\ Revealed(Cursor) /\ AdjacentCount(Cursor) > 0
  /\ RevealedSet = {Cursor}


\* The chain of reveal calls a reveal action at the cursor runs.
CursorCalls ==
  IF impl = "ms" THEN revealCalls(vvram, mask, x, y)
  ELSE Board_revealCalls(grid, cursor_x, cursor_y)
\* The same chain on the board as it is built, nothing revealed or marked.
FirstCalls ==
  IF impl = "ms"
    THEN revealCalls(vvram, [cx \in XS |-> [cy \in YS |-> "#"]], x, y)
    ELSE Board_revealCalls(
           [cx \in XS |-> [cy \in YS |->
              [grid[cx][cy] EXCEPT !.revealed = FALSE, !.mark = 0]]],
           cursor_x, cursor_y)

\* C17: the chain of calls run by a reveal action returns (its call stack is
\* empty within the steps it is given), sets each cell revealed at most once
\* (as many assignments as cells that become revealed, and no cell becomes
\* unrevealed), and never nests deeper than width*height + 1 calls.
C17_RevealTerminates ==
  [][(pc = "key" /\ key' = " " /\ RevealStep /\ ~IsMine(Cursor))
       => (/\ CursorCalls.st = << >>
           /\ CursorCalls.depth <= xsize * ysize + 1
           /\ CursorCalls.flips = Cardinality(NewlyRevealed)
           /\ RevealedSet \subseteq RevealedSet')]_vars

\* A reveal at the start position of a board without mines has won the game:
\* its calls nested width*height + 1 deep and set every cell once.
C17_Witness ==
  /\ pc = "winkey" /\ key = " " /\ mines = 0
  /\ Cursor = <<xsize \div 2, ysize \div 2>>
  /\ RevealedSet = Cells
  /\ FirstCalls.st = << >>
  /\ FirstCalls.depth = xsize * ysize + 1
  /\ FirstCalls.flips = xsize * ysize


\* C18: in nyankosweeper.py, once game_over is set it stays set and the game
\* is never declared Won: handle_win is not run and run does not return 0,
\* although the loss path leaves every non-mine cell revealed.
C18_NoWinAfterLoss ==
  /\ []((impl = "ns" /\ game_over) => ~Won)
  /\ [][(impl = "ns" /\ game_over) => game_over']_vars

\* The loop head has been passed after a loss with all_clear() true.
C18_Witness ==
  /\ impl = "ns" /\ game_over /\ pc = "key"
  /\ all_clear(grid)

\* C19: in nyankosweeper.py, when the loss path has run, every mine that is
\* not flagged is revealed, every flagged mine (the one stepped on included)
\* is unrevealed and still flagged, and every non-mine cell is revealed.
C19_LossReveal ==
  [][(impl = "ns" /\ pc = "key" /\ key' = " " /\ NsReveal /\ IsMine(Cursor))
       => (/\ pc' = "losekey"
           /\ MarkMap' = MarkMap
           /\ \A p \in Cells :
                Revealed(p)' <=> ~(IsMine(p) /\ MarkOf(p) = 1))]_vars

\* The player has stepped on a flagged mine, which stays hidden, while
\* another mine, not flagged, is shown.
C19_Witness ==
  /\ impl = "ns" /\ pc = "losekey" /\ key = " "
  /\ IsMine(Cursor) /\ MarkOf(Cursor) = 1 /\ ~Revealed(Cursor)
  /\ \E q \in MineSet : MarkOf(q) # 1 /\ Revealed(q)

\* C20: in nyankosweeper.py, in every in-progress state each revealed cell is
\* a non-mine cell with mark None, and a move, toggle or reveal action taken
\* in such a state leaves every revealed cell revealed.
C20_RevealedCellsClean ==
  /\ []((impl = "ns" /\ InProgress)
          => \A p \in Cells : Revealed(p) => (~IsMine(p) /\ MarkOf(p) = 0))
  /\ [][(impl = "ns" /\ pc = "key" /\ InProgress
           /\ (NsMove \/ NsToggle \/ NsReveal))
          => RevealedSet \subseteq RevealedSet']_vars

\* A toggle on a revealed cell has left it unmarked while another cell
\* carries a mark.
C20_Witness ==
  /\ impl = "ns" /\ InProgress /\ key = "z"
  /\ Revealed(Cursor) /\ MarkOf(Cursor) = 0
  /\ \E q \in Cells : Marked(q)

====
